---- MODULE Spec2Model ----
(***************************************************************************)
(* The tool-orchestration layer of the weekend assistant: detect_tool,     *)
(* call_tool, ask_llm and agent_loop of agent_fun.py, with the tool bodies *)
(* of server_fun.py that feed the weather pipeline.  Python strings are    *)
(* TLA+ strings; the regular expressions, str.strip, str.lower and         *)
(* json.loads are computed character by character.                         *)
(***************************************************************************)
EXTENDS Integers, Sequences, FiniteSets, TLC

(***************************************************************************)
(* Characters and the str methods the code uses                            *)
(***************************************************************************)
UpperLetters == "ABCDEFGHIJKLMNOPQRSTUVWXYZ"

LowerLetters == "abcdefghijklmnopqrstuvwxyz"

Digits == "0123456789"

At(s, i) == SubSeq(s, i, i)

Chars(alphabet) == {At(alphabet, i) : i \in 1..Len(alphabet)}

IndexIn(alphabet, c) ==
    IF c \in Chars(alphabet)
    THEN CHOOSE i \in 1..Len(alphabet) : At(alphabet, i) = c
    ELSE 0

UpperSet == Chars(UpperLetters)

LetterSet == Chars(UpperLetters) \cup Chars(LowerLetters)

DigitSet == Chars(Digits)

IsLetter(c) == c \in LetterSet

IsDigit(c) == c \in DigitSet

\* \w of the re module, on the ASCII texts of the model
IsWordChar(c) == IsLetter(c) \/ IsDigit(c) \/ c = "_"

\* \s of the re module and the characters str.strip() removes
IsSpace(c) == c \in {" ", "\t", "\n", "\r"}

LowerOf == [c \in UpperSet |-> At(LowerLetters, IndexIn(UpperLetters, c))]

LowerChar(c) == IF c \in UpperSet THEN LowerOf[c] ELSE c

RECURSIVE LowerFrom(_, _)
LowerFrom(s, i) ==
    IF i > Len(s) THEN "" ELSE LowerChar(At(s, i)) \o LowerFrom(s, i + 1)

lower(s) == LowerFrom(s, 1)

RECURSIVE FirstNonSpace(_, _)
FirstNonSpace(s, i) ==
    IF i <= Len(s) /\ IsSpace(At(s, i)) THEN FirstNonSpace(s, i + 1) ELSE i

RECURSIVE LastNonSpace(_, _)
LastNonSpace(s, i) ==
    IF i >= 1 /\ IsSpace(At(s, i)) THEN LastNonSpace(s, i - 1) ELSE i

strip(s) == SubSeq(s, FirstNonSpace(s, 1), LastNonSpace(s, Len(s)))

\* Python's  w in u  on strings
Contains(u, w) ==
    \E i \in 1..(Len(u) - Len(w) + 1) : SubSeq(u, i, i + Len(w) - 1) = w

AnyIn(u, words) == \E w \in words : Contains(u, w)

(***************************************************************************)
(* re.search(r"\b(?:k1|k2|..)\s+([a-zA-Z ]+?)(?:t1|t2|..|$)", s, re.I)     *)
(* with the keywords kws in the order written and the terminators terms.   *)
(* A match starts at a word boundary p with a keyword, then a run of       *)
(* whitespace up to g, then the group from g up to e, where a terminator   *)
(* or the end of s follows.  No terminator is in the group's class, so the *)
(* lazy group from g ends where the run of class characters ends.          *)
(***************************************************************************)
InGroupClass(c) == IsLetter(c) \/ c = " "

WordBoundaryBefore(s, p) == p = 1 \/ ~IsWordChar(At(s, p - 1))

RECURSIVE RunEnd(_, _)
RunEnd(s, i) ==
    IF i <= Len(s) /\ InGroupClass(At(s, i)) THEN RunEnd(s, i + 1) ELSE i

GroupFits(s, terms, g) ==
    LET e == RunEnd(s, g)
    IN  e > g /\ (e = Len(s) + 1 \/ At(s, e) \in terms)

KeywordAt(s, p, k) ==
    /\ WordBoundaryBefore(s, p)
    /\ p + Len(k) - 1 <= Len(s)
    /\ lower(SubSeq(s, p, p + Len(k) - 1)) = k

\* where the group may start after the keyword k at p: \s+ takes one or more
\* of the whitespace characters that follow the keyword
GroupStarts(s, terms, p, k) ==
    LET ws == p + Len(k)
    IN  {g \in (ws + 1)..FirstNonSpace(s, ws) : GroupFits(s, terms, g)}

MatchesAt(s, kws, terms, p) ==
    \E i \in 1..Len(kws) :
        KeywordAt(s, p, kws[i]) /\ GroupStarts(s, terms, p, kws[i]) # {}

RegexMatches(s, kws, terms) == \E p \in 1..Len(s) : MatchesAt(s, kws, terms, p)

\* group(1) of the match re.search reports: the leftmost start, the first
\* alternative that leads to a match, the greedy (longest) whitespace run
RegexGroup(s, kws, terms) ==
    LET p == CHOOSE q \in 1..Len(s) :
                 /\ MatchesAt(s, kws, terms, q)
                 /\ \A r \in 1..(q - 1) : ~MatchesAt(s, kws, terms, r)
        Alt(i) == KeywordAt(s, p, kws[i]) /\ GroupStarts(s, terms, p, kws[i]) # {}
        i == CHOOSE a \in 1..Len(kws) : Alt(a) /\ \A b \in 1..(a - 1) : ~Alt(b)
        starts == GroupStarts(s, terms, p, kws[i])
        g == CHOOSE a \in starts : \A b \in starts : b <= a
    IN  SubSeq(s, g, RunEnd(s, g) - 1)

(***************************************************************************)
(* detect_tool                                                             *)
(***************************************************************************)
WeatherWords == {"weather", "temperature", "forecast"}

TriviaWords == {"trivia", "quiz", "question", "test me", "challenge"}

JokeWords == {"joke", "funny", "laugh", "humor", "humour"}

DogWords == {"dog", "puppy", "doggo", "pup", "woof"}

BookWords == {"book", "read", "novel", "recommend", "fiction", "story"}

LocationWords == <<"in", "at", "for">>

LocationEnds == {"?", "."}

TopicWords == <<"about", "on", "topic", "genre", "like">>

TopicEnds == {"?", ".", ","}

\* the absent decision (None) and the two shapes of a decision
NoDecision == [tool |-> "None", city |-> "", topic |-> "", limit |-> 0]

WeatherDecision(city) ==
    [tool |-> "weather_pipeline", city |-> city, topic |-> "", limit |-> 0]

PlainDecision(name) == [tool |-> name, city |-> "", topic |-> "", limit |-> 0]

BookLimit == 3

BookDecision(topic) ==
    [tool |-> "book_recs", city |-> "", topic |-> topic, limit |-> BookLimit]

\* lines 18-22: the city is None without a match, and an empty city is falsy
WeatherCity(user) ==
    IF RegexMatches(user, LocationWords, LocationEnds)
    THEN strip(RegexGroup(user, LocationWords, LocationEnds))
    ELSE ""

WeatherBranchTaken(user) ==
    AnyIn(lower(user), WeatherWords) /\ WeatherCity(user) # ""

\* BookTopic with no default
BookTopic_NoDefault(user) ==
    IF RegexMatches(user, TopicWords, TopicEnds)
    THEN strip(RegexGroup(user, TopicWords, TopicEnds))
    ELSE ""

BookTopic(user) ==
    IF RegexMatches(user, TopicWords, TopicEnds)
    THEN strip(RegexGroup(user, TopicWords, TopicEnds))
    ELSE "fiction"

\* detect_tool with a book recommendation where no category matches
detect_tool_BookDefault(user) ==
    IF WeatherBranchTaken(user) THEN WeatherDecision(WeatherCity(user))
    ELSE IF AnyIn(lower(user), TriviaWords) THEN PlainDecision("trivia")
    ELSE IF AnyIn(lower(user), JokeWords) THEN PlainDecision("random_joke")
    ELSE IF AnyIn(lower(user), DogWords) THEN PlainDecision("random_dog")
    ELSE BookDecision(BookTopic(user))

\* detect_tool testing the dog words before the trivia words
detect_tool_DogFirst(user) ==
    IF WeatherBranchTaken(user) THEN WeatherDecision(WeatherCity(user))
    ELSE IF AnyIn(lower(user), DogWords) THEN PlainDecision("random_dog")
    ELSE IF AnyIn(lower(user), TriviaWords) THEN PlainDecision("trivia")
    ELSE IF AnyIn(lower(user), JokeWords) THEN PlainDecision("random_joke")
    ELSE IF AnyIn(lower(user), BookWords) THEN BookDecision(BookTopic(user))
    ELSE NoDecision

detect_tool(user) ==
    LET u == lower(user)
    IN  IF WeatherBranchTaken(user) THEN WeatherDecision(WeatherCity(user))
        ELSE IF AnyIn(u, TriviaWords) THEN PlainDecision("trivia")
        ELSE IF AnyIn(u, JokeWords) THEN PlainDecision("random_joke")
        ELSE IF AnyIn(u, DogWords) THEN PlainDecision("random_dog")
        ELSE IF AnyIn(u, BookWords) THEN BookDecision(BookTopic(user))
        ELSE NoDecision

(***************************************************************************)
(* JSON values, json.loads and the JSON text the tool host sends           *)
(* A number keeps its text (48.85); Python's None and JSON's null are JNull *)
(***************************************************************************)
JNull == [t |-> "null"]

JBool(b) == [t |-> "bool", b |-> b]

JNum(text) == [t |-> "num", n |-> text]

JStr(s) == [t |-> "str", s |-> s]

JArr(items) == [t |-> "arr", items |-> items]

JObj(keys, vals) == [t |-> "obj", keys |-> keys, vals |-> vals]

ParseFail == [ok |-> FALSE, val |-> JNull, next |-> 0]

ParseOk(v, i) == [ok |-> TRUE, val |-> v, next |-> i]

\* the whitespace json.loads skips between tokens
SkipWs(s, i) == FirstNonSpace(s, i)

RECURSIVE DigitsEnd(_, _)
DigitsEnd(s, i) ==
    IF i <= Len(s) /\ IsDigit(At(s, i)) THEN DigitsEnd(s, i + 1) ELSE i

StartsAt(s, i, w) == i + Len(w) - 1 <= Len(s) /\ SubSeq(s, i, i + Len(w) - 1) = w

\* -?(0|[1-9][0-9]*)(\.[0-9]+)?  (no exponent part)
ParseNumber(s, i) ==
    LET a == IF StartsAt(s, i, "-") THEN i + 1 ELSE i
        b == IF StartsAt(s, a, "0") THEN a + 1 ELSE DigitsEnd(s, a)
        c == IF StartsAt(s, b, ".") /\ DigitsEnd(s, b + 1) > b + 1
             THEN DigitsEnd(s, b + 1)
             ELSE b
    IN  IF b = a THEN ParseFail ELSE ParseOk(JNum(SubSeq(s, i, c - 1)), c)

Unescape(c) == IF c = "n" THEN "\n" ELSE IF c = "t" THEN "\t" ELSE c

\* the characters of a string after its opening quote
RECURSIVE ParseStringBody(_, _, _)
ParseStringBody(s, i, acc) ==
    IF i > Len(s) \/ At(s, i) \in {"\n", "\r", "\t"} THEN ParseFail
    ELSE IF At(s, i) = "\"" THEN ParseOk(JStr(acc), i + 1)
    ELSE IF At(s, i) = "\\"
         THEN IF i + 1 <= Len(s) /\ At(s, i + 1) \in {"\"", "\\", "/", "n", "t"}
              THEN ParseStringBody(s, i + 2, acc \o Unescape(At(s, i + 1)))
              ELSE ParseFail
    ELSE ParseStringBody(s, i + 1, acc \o At(s, i))

RECURSIVE ParseValue(_, _)
RECURSIVE ParseItems(_, _, _)
RECURSIVE ParseMembers(_, _, _, _)
\* the items of an array after "[" or ","
ParseItems(s, i, items) ==
    LET v == ParseValue(s, i)
        j == SkipWs(s, v.next)
    IN  IF ~v.ok THEN ParseFail
        ELSE IF StartsAt(s, j, ",") THEN ParseItems(s, j + 1, Append(items, v.val))
        ELSE IF StartsAt(s, j, "]") THEN ParseOk(JArr(Append(items, v.val)), j + 1)
        ELSE ParseFail

\* the members of an object after "{" or ","
ParseMembers(s, i, keys, vals) ==
    LET a == SkipWs(s, i)
        k == IF StartsAt(s, a, "\"") THEN ParseStringBody(s, a + 1, "") ELSE ParseFail
        b == SkipWs(s, k.next)
        v == IF k.ok /\ StartsAt(s, b, ":") THEN ParseValue(s, b + 1) ELSE ParseFail
        j == SkipWs(s, v.next)
    IN  IF ~v.ok THEN ParseFail
        ELSE IF StartsAt(s, j, ",")
             THEN ParseMembers(s, j + 1, Append(keys, k.val.s), Append(vals, v.val))
        ELSE IF StartsAt(s, j, "}")
             THEN ParseOk(JObj(Append(keys, k.val.s), Append(vals, v.val)), j + 1)
        ELSE ParseFail

ParseValue(s, i0) ==
    LET i == SkipWs(s, i0)
    IN  IF i > Len(s) THEN ParseFail
        ELSE IF StartsAt(s, i, "{")
             THEN IF StartsAt(s, SkipWs(s, i + 1), "}")
                  THEN ParseOk(JObj(<<>>, <<>>), SkipWs(s, i + 1) + 1)
                  ELSE ParseMembers(s, i + 1, <<>>, <<>>)
        ELSE IF StartsAt(s, i, "[")
             THEN IF StartsAt(s, SkipWs(s, i + 1), "]")
                  THEN ParseOk(JArr(<<>>), SkipWs(s, i + 1) + 1)
                  ELSE ParseItems(s, i + 1, <<>>)
        ELSE IF StartsAt(s, i, "\"") THEN ParseStringBody(s, i + 1, "")
        ELSE IF StartsAt(s, i, "null") THEN ParseOk(JNull, i + 4)
        ELSE IF StartsAt(s, i, "true") THEN ParseOk(JBool(TRUE), i + 4)
        ELSE IF StartsAt(s, i, "false") THEN ParseOk(JBool(FALSE), i + 5)
        ELSE ParseNumber(s, i)

\* json.loads(raw): ok is FALSE where it raises JSONDecodeError
json_loads(raw) ==
    LET v == ParseValue(raw, 1)
    IN  IF v.ok /\ SkipWs(raw, v.next) = Len(raw) + 1 THEN v ELSE ParseFail

\* coords.get(key): the last member of that name, None without one
DictGet(obj, key) ==
    LET hits == {i \in 1..Len(obj.keys) : obj.keys[i] = key}
    IN  IF hits = {} THEN JNull
        ELSE obj.vals[CHOOSE i \in hits : \A j \in hits : j <= i]

HasKey(obj, key) == \E i \in 1..Len(obj.keys) : obj.keys[i] = key

\* the truth value Python gives a parsed value in  if lat and lon
Truthy(v) ==
    CASE v.t = "null" -> FALSE
      [] v.t = "bool" -> v.b
      [] v.t = "num"  -> \E i \in 1..Len(v.n) : IsDigit(At(v.n, i)) /\ At(v.n, i) # "0"
      [] v.t = "str"  -> v.s # ""
      [] v.t = "arr"  -> v.items # <<>>
      [] v.t = "obj"  -> v.keys # <<>>

EscapeChar(c) ==
    IF c = "\"" THEN "\\\"" ELSE IF c = "\\" THEN "\\\\"
    ELSE IF c = "\n" THEN "\\n" ELSE c

RECURSIVE Escape(_)
Escape(s) == IF s = "" THEN "" ELSE EscapeChar(At(s, 1)) \o Escape(Tail(s))

\* the JSON text of a scalar
DumpScalar(v) ==
    CASE v.t = "null" -> "null"
      [] v.t = "bool" -> IF v.b THEN "true" ELSE "false"
      [] v.t = "num"  -> v.n
      [] v.t = "str"  -> "\"" \o Escape(v.s) \o "\""

RECURSIVE DumpMembers(_, _)
DumpMembers(obj, i) ==
    IF i > Len(obj.keys) THEN ""
    ELSE "\n  \"" \o Escape(obj.keys[i]) \o "\": " \o DumpScalar(obj.vals[i])
         \o (IF i < Len(obj.keys) THEN "," ELSE "")
         \o DumpMembers(obj, i + 1)

\* a mapping of scalars as the tool host writes it, indented by two
json_dumps(obj) ==
    IF obj.keys = <<>> THEN "{}" ELSE "{" \o DumpMembers(obj, 1) \o "\n}"

(***************************************************************************)
(* The tool host (server_fun.py).  Each tool body makes one outbound       *)
(* request; http is what that request gave: [ok, body, msg], body the      *)
(* decoded JSON of the response and msg the text of the exception raised   *)
(* by requests.get, raise_for_status or r.json().  A tool returns a        *)
(* mapping, a text, or raises.  Readings are whole numbers.                *)
(***************************************************************************)
HttpOk(body) == [ok |-> TRUE, body |-> body, msg |-> ""]

HttpFail(msg) == [ok |-> FALSE, body |-> JNull, msg |-> msg]

EmptyObj == JObj(<<>>, <<>>)

RetObj(o) == [kind |-> "obj", obj |-> o, text |-> ""]

RetText(s) == [kind |-> "text", obj |-> EmptyObj, text |-> s]

RetRaise(msg) == [kind |-> "raise", obj |-> EmptyObj, text |-> msg]

ErrorObj(msg) == JObj(<<"error">>, <<JStr(msg)>>)

\* d.get(key, default) on a decoded mapping
GetOr(obj, key, default) == IF HasKey(obj, key) THEN DictGet(obj, key) ELSE default

RECURSIVE NatToStr(_)
NatToStr(n) ==
    IF n < 10 THEN At(Digits, n + 1)
    ELSE NatToStr(n \div 10) \o At(Digits, (n % 10) + 1)

IntToStr(n) == IF n < 0 THEN "-" \o NatToStr(-n) ELSE NatToStr(n)

RECURSIVE StrToNat(_)
StrToNat(s) ==
    IF s = "" THEN 0
    ELSE 10 * StrToNat(SubSeq(s, 1, Len(s) - 1)) + (IndexIn(Digits, At(s, Len(s))) - 1)

StrToInt(s) == IF StartsAt(s, 1, "-") THEN -StrToNat(Tail(s)) ELSE StrToNat(s)

\* lines 14-34
city_to_coords(city, http) ==
    IF ~http.ok THEN RetObj(ErrorObj(http.msg))
    ELSE LET results == GetOr(http.body, "results", JArr(<<>>))
             loc     == results.items[1]
         IN  IF ~Truthy(results)
             THEN RetObj(ErrorObj("City '" \o city \o "' not found"))
             ELSE IF ~HasKey(loc, "name") THEN RetObj(ErrorObj("'name'"))
             ELSE IF ~HasKey(loc, "latitude") THEN RetObj(ErrorObj("'latitude'"))
             ELSE IF ~HasKey(loc, "longitude") THEN RetObj(ErrorObj("'longitude'"))
             ELSE RetObj(JObj(
                      <<"city", "country", "latitude", "longitude", "timezone">>,
                      <<DictGet(loc, "name"), DictGet(loc, "country"),
                        DictGet(loc, "latitude"), DictGet(loc, "longitude"),
                        DictGet(loc, "timezone")>>))

\* lines 65-71
Condition(code) ==
    CASE code = 0 -> "clear sky"       [] code = 1 -> "mainly clear"
      [] code = 2 -> "partly cloudy"   [] code = 3 -> "overcast"
      [] code = 45 -> "foggy"          [] code = 51 -> "light drizzle"
      [] code = 61 -> "light rain"     [] code = 63 -> "rain"
      [] code = 65 -> "heavy rain"     [] code = 71 -> "light snow"
      [] code = 73 -> "snow"           [] code = 80 -> "rain showers"
      [] code = 95 -> "thunderstorm"   [] OTHER -> "unknown weather"

\* lines 73-82 (the dash of the source is written "-")
Feel(temp_f) ==
    IF temp_f < 32 THEN "Freezing cold - perfect for hot cocoa indoors!"
    ELSE IF temp_f < 50 THEN "Chilly - grab a cozy sweater."
    ELSE IF temp_f < 70 THEN "Pleasant and mild."
    ELSE IF temp_f < 85 THEN "Warm and lovely."
    ELSE "Hot - stay hydrated!"

\* lines 53-89, with get_weather (lines 37-50) inlined: it raises, uncaught,
\* on a failed request (the degree sign of the summary is written "deg")
weather_summary(latitude, longitude, http) ==
    IF ~http.ok THEN RetRaise(http.msg)
    ELSE LET data   == GetOr(http.body, "current", EmptyObj)
             temp_f == DictGet(data, "temperature_2m")
             wind   == GetOr(data, "wind_speed_10m", JNum("0"))
             code   == GetOr(data, "weather_code", JNum("0"))
             cond   == Condition(StrToInt(code.n))
         IN  IF temp_f.t = "null" THEN RetObj(ErrorObj("Could not retrieve weather"))
             ELSE RetObj(JObj(
                      <<"temperature_f", "condition", "wind_kmh", "summary">>,
                      <<temp_f, JStr(cond), wind,
                        JStr("It's currently " \o temp_f.n \o "degF and " \o cond
                             \o " with winds around " \o wind.n \o " km/h. "
                             \o Feel(StrToInt(temp_f.n)))>>))

RECURSIVE BookLines(_, _, _)
BookLines(docs, i, limit) ==
    IF i > Len(docs) \/ i > limit THEN ""
    ELSE (IF i > 1 THEN "\n" ELSE "") \o IntToStr(i) \o ". "
         \o GetOr(docs[i], "title", JStr("Unknown Title")).s
         \o BookLines(docs, i + 1, limit)

\* lines 92-108
book_recs(topic, limit, http) ==
    IF ~http.ok THEN RetText("Error fetching books: " \o http.msg)
    ELSE LET docs == GetOr(http.body, "docs", JArr(<<>>)).items
         IN  IF docs = <<>> \/ limit = 0
             THEN RetText("Sorry, no books found for '" \o topic \o "'.")
             ELSE RetText("Here are some " \o topic \o " books:\n"
                          \o BookLines(docs, 1, limit))

\* lines 111-117: nothing catches a failed request
random_joke(http) ==
    IF ~http.ok THEN RetRaise(http.msg)
    ELSE RetObj(JObj(<<"joke">>, <<GetOr(http.body, "joke", JStr("No joke found"))>>))

PlaceholderUrl == "https://via.placeholder.com/500?text=No+Dog+Image"

\* lines 135-147
random_dog(http) ==
    IF ~http.ok THEN RetText(PlaceholderUrl)
    ELSE LET url == DictGet(http.body, "message")
         IN  IF url.t = "null" THEN RetText(PlaceholderUrl)
             ELSE IF ~StartsAt(url.s, 1, "http") THEN RetText(PlaceholderUrl)
             ELSE RetText(url.s)

Labels == <<"A", "B", "C", "D">>

RECURSIVE OptionLines(_, _)
OptionLines(options, i) ==
    IF i > Len(Labels) THEN ""
    ELSE "\n  " \o Labels[i] \o ") " \o options[i] \o OptionLines(options, i + 1)

\* lines 150-177: nothing catches a failed request; shuffled is the order
\* random.shuffle left the four options in (html.unescape changes none of
\* the model's texts)
trivia(http, shuffled) ==
    IF ~http.ok THEN RetRaise(http.msg)
    ELSE LET data == GetOr(http.body, "results", JArr(<<>>))
             q       == data.items[1]
             correct == DictGet(q, "correct_answer").s
             label   == Labels[CHOOSE i \in 1..Len(Labels) :
                                   /\ shuffled[i] = correct
                                   /\ \A j \in 1..(i - 1) : shuffled[j] # correct]
         IN  IF ~Truthy(data) THEN RetText("No trivia available.")
             ELSE RetText("Question: " \o DictGet(q, "question").s \o "\n"
                          \o OptionLines(shuffled, 1)
                          \o "\n\nAnswer: " \o label \o ") " \o correct)

(***************************************************************************)
(* What session.call_tool can give: a result with content blocks (a block  *)
(* carries a text or not), an exception, or nothing before the timer fires *)
(***************************************************************************)
TextBlock(s) == [is_text |-> TRUE, text |-> s, repr |-> ""]

OtherBlock(repr) == [is_text |-> FALSE, text |-> "", repr |-> repr]

Result(content, dump) ==
    [kind |-> "result", content |-> content, dump |-> dump, msg |-> ""]

Raised(msg) == [kind |-> "raise", content |-> <<>>, dump |-> "", msg |-> msg]

TimedOut == [kind |-> "timeout", content |-> <<>>, dump |-> "", msg |-> ""]

\* the content the host's tool decorator makes of what a tool body did: the
\* JSON text of a mapping, a text as it is, the error text of a raise
ToolContent(name, ret) ==
    CASE ret.kind = "obj"   -> <<TextBlock(json_dumps(ret.obj))>>
      [] ret.kind = "text"  -> <<TextBlock(ret.text)>>
      [] ret.kind = "raise" ->
             <<TextBlock("Error executing tool " \o name \o ": " \o ret.text)>>

\* result.model_dump_json() of a result that has no content
EmptyDump == "{\"meta\":null,\"content\":[],\"structuredContent\":null,\"isError\":false}"

\* Registry of a host whose random_dog is not registered
Registry_WithoutDog ==
    {"city_to_coords", "get_weather", "weather_summary", "book_recs",
     "random_joke", "trivia"}

\* the tool names the host lists at startup (every @mcp.tool() of server_fun.py)
Registry ==
    {"city_to_coords", "get_weather", "weather_summary", "book_recs",
     "random_joke", "random_dog", "trivia"}

(***************************************************************************)
(* call_tool, ask_llm and the steps of a turn of agent_loop                *)
(***************************************************************************)
Timeout == 20

RECURSIVE JoinBlocks(_, _)
JoinBlocks(content, i) ==
    IF i > Len(content) THEN ""
    ELSE (IF i > 1 THEN "\n" ELSE "")
         \o (IF content[i].is_text THEN content[i].text ELSE content[i].repr)
         \o JoinBlocks(content, i + 1)

TimeoutText(name) == "[Error: '" \o name \o "' timed out]"

\* FaultText dropping the message of the exception
FaultText_NoMessage(msg) == "[Error]"

FaultText(msg) == "[Error: " \o msg \o "]"

\* lines 41-53: what call_tool returns for each outcome of the invocation
call_tool(name, outcome) ==
    CASE outcome.kind = "result" ->
             IF outcome.content # <<>> THEN JoinBlocks(outcome.content, 1)
             ELSE outcome.dump
      [] outcome.kind = "timeout" -> TimeoutText(name)
      [] outcome.kind = "raise" -> FaultText(outcome.msg)

SYSTEM ==
    "You are a cheerful weekend assistant. "
    \o "When you receive tool data, present it naturally in plain English - no JSON, no code. "
    \o "For trivia, show the question and all options clearly, then reveal the answer. "
    \o "For jokes, just say the joke. "
    \o "For weather, give a friendly summary. "
    \o "Keep replies short and warm."

Message(role, content) == [role |-> role, content |-> content]

\* tool_result is None or a string
NoText == [some |-> FALSE, s |-> ""]

Some(s) == [some |-> TRUE, s |-> s]

CouldNotFind(city) == "Could not find city '" \o city \o "'."

\* WeatherFor without the line that names the city
WeatherFor_Bare(city, weather) == weather

WeatherFor(city, weather) == "Weather for " \o city \o ":\n" \o weather

\* Gate without the test of line 97: any mapping goes on to weather_summary
Gate_NoCheck(city, raw, parsed, lat, lon) ==
    IF ~parsed.ok \/ parsed.val.t # "obj"
    THEN [go |-> FALSE, text |-> raw, lat |-> JNull, lon |-> JNull, coords |-> parsed]
    ELSE [go |-> TRUE, text |-> "", lat |-> lat, lon |-> lon, coords |-> parsed]

\* Gate with the message of line 102 in the handler of line 103 too
Gate_MessageOnFailure(city, raw, parsed, lat, lon) ==
    IF (~parsed.ok \/ parsed.val.t # "obj") \/ ~(Truthy(lat) /\ Truthy(lon))
    THEN [go |-> FALSE, text |-> CouldNotFind(city), lat |-> lat, lon |-> lon,
          coords |-> parsed]
    ELSE [go |-> TRUE, text |-> "", lat |-> lat, lon |-> lon, coords |-> parsed]

\* Gate handing the coordinates on in the other order
Gate_Swapped(city, raw, parsed, lat, lon) ==
    IF ~parsed.ok \/ parsed.val.t # "obj"
    THEN [go |-> FALSE, text |-> raw, lat |-> JNull, lon |-> JNull, coords |-> parsed]
    ELSE IF Truthy(lat) /\ Truthy(lon)
    THEN [go |-> TRUE, text |-> "", lat |-> lon, lon |-> lat, coords |-> parsed]
    ELSE [go |-> FALSE, text |-> CouldNotFind(city), lat |-> lat, lon |-> lon,
          coords |-> parsed]

\* lines 94-104, up to the second invocation: the gate on what json.loads
\* made of the geocode text (parsed.ok is FALSE where it raised; coords.get
\* raises on anything but a mapping).  go: weather_summary is invoked with
\* lat and lon; otherwise text is tool_result
Gate(city, raw, parsed, lat, lon) ==
    IF ~parsed.ok \/ parsed.val.t # "obj"
    THEN [go |-> FALSE, text |-> raw, lat |-> JNull, lon |-> JNull, coords |-> parsed]
    ELSE IF Truthy(lat) /\ Truthy(lon)
    THEN [go |-> TRUE, text |-> "", lat |-> lat, lon |-> lon, coords |-> parsed]
    ELSE [go |-> FALSE, text |-> CouldNotFind(city), lat |-> lat, lon |-> lon,
          coords |-> parsed]

\* coords.get(key) where coords is a mapping
CoordsGet(parsed, key) ==
    IF parsed.ok /\ parsed.val.t = "obj" THEN DictGet(parsed.val, key) ELSE JNull

GateOn(city, raw, parsed) ==
    Gate(city, raw, parsed, CoordsGet(parsed, "latitude"),
         CoordsGet(parsed, "longitude"))

Loaded(v) == [ok |-> v.ok, val |-> v.val]

GeocodeGate(city, raw) == GateOn(city, raw, Loaded(json_loads(raw)))

\* BuildPrompt testing tool_result against None only
BuildPrompt_NotNone(text, tool_result) ==
    IF tool_result.some
    THEN "User asked: \"" \o text \o "\"\n\n"
         \o "Tool returned:\n" \o tool_result.s \o "\n\n"
         \o "Reply to the user naturally in plain English. No JSON or code."
    ELSE text

\* lines 109-116
BuildPrompt(text, tool_result) ==
    IF tool_result.some /\ tool_result.s # ""
    THEN "User asked: \"" \o text \o "\"\n\n"
         \o "Tool returned:\n" \o tool_result.s \o "\n\n"
         \o "Reply to the user naturally in plain English. No JSON or code."
    ELSE text

\* lines 56-58: content is the reply's text, None as NoText
ask_llm(content) == strip(IF content.some THEN content.s ELSE "")

ExitWords == {"exit", "quit"}

\* IsExit comparing the text as typed, in its own letter case
IsExit_CaseSensitive(text) == text = "" \/ text \in ExitWords

\* line 82
IsExit(text) == text = "" \/ lower(text) \in ExitWords

(***************************************************************************)
(* The bounded world: the lines typed, what the outbound requests of the   *)
(* tools give, what the channel and the language model give                *)
(***************************************************************************)
MaxTurns == 2

InputLines ==
    {"What's the weather in Paris?\n", "tell me a joke\n", "hello there\n",
     "exit\n", " QUIT \n", "\n", ""}

Paris(longitude) ==
    JObj(<<"name", "latitude", "longitude", "country">>,
         <<JStr("Paris"), JNum("48.85"), JNum(longitude), JStr("France")>>)

GeocodeBody(loc) == JObj(<<"results">>, <<JArr(<<loc>>)>>)

Reading ==
    JObj(<<"current">>,
         <<JObj(<<"temperature_2m", "weather_code", "wind_speed_10m">>,
                <<JNum("59"), JNum("3"), JNum("10")>>)>>)

Question ==
    JObj(<<"question", "correct_answer">>, <<JStr("Capital of France?"), JStr("Paris")>>)

Shuffles == {<<"Rome", "Paris", "Oslo", "Bonn">>, <<"Paris", "Bonn", "Rome", "Oslo">>}

NoShuffle == <<"", "", "", "">>

World(http, shuffled) == [http |-> http, shuffled |-> shuffled]

RequestFault == "HTTPSConnectionPool: Read timed out."

Envs(name) ==
    CASE name = "city_to_coords" ->
             {World(HttpOk(GeocodeBody(Paris("2.35"))), NoShuffle),
              World(HttpOk(GeocodeBody(Paris("0.0"))), NoShuffle),
              World(HttpOk(EmptyObj), NoShuffle),
              World(HttpFail(RequestFault), NoShuffle)}
      [] name = "weather_summary" ->
             {World(HttpOk(Reading), NoShuffle), World(HttpOk(EmptyObj), NoShuffle),
              World(HttpFail(RequestFault), NoShuffle)}
      [] name = "book_recs" ->
             {World(HttpOk(JObj(<<"docs">>,
                    <<JArr(<<JObj(<<"title">>, <<JStr("Dune")>>), EmptyObj>>)>>)), NoShuffle),
              World(HttpOk(EmptyObj), NoShuffle),
              World(HttpFail(RequestFault), NoShuffle)}
      [] name = "random_joke" ->
             {World(HttpOk(JObj(<<"joke">>, <<JStr("I told my dog a joke. He howled.")>>)),
                    NoShuffle),
              World(HttpFail(RequestFault), NoShuffle)}
      [] name = "random_dog" ->
             {World(HttpOk(JObj(<<"message">>,
                    <<JStr("https://images.dog.ceo/breeds/pug/1.jpg")>>)), NoShuffle),
              World(HttpFail(RequestFault), NoShuffle)}
      [] name = "trivia" ->
             {World(HttpOk(JObj(<<"results">>, <<JArr(<<Question>>)>>)), sh) : sh \in Shuffles}
             \cup {World(HttpOk(EmptyObj), NoShuffle), World(HttpFail(RequestFault), NoShuffle)}

\* the tool body of server_fun.py that the host runs for name
ToolRun(name, args, env) ==
    CASE name = "city_to_coords" -> city_to_coords(DictGet(args, "city").s, env.http)
      [] name = "weather_summary" ->
             weather_summary(DictGet(args, "latitude"), DictGet(args, "longitude"), env.http)
      [] name = "book_recs" ->
             book_recs(DictGet(args, "topic").s, StrToInt(DictGet(args, "limit").n), env.http)
      [] name = "random_joke" -> random_joke(env.http)
      [] name = "random_dog" -> random_dog(env.http)
      [] name = "trivia" -> trivia(env.http, env.shuffled)

\* content of a host other than server_fun.py (the host is sys.argv[1])
ForeignContents(name) ==
    CASE name = "city_to_coords" -> {<<TextBlock("[48.85, 2.35]")>>, <<>>}
      [] name = "random_joke" ->
             {<<TextBlock("Here is one:"), OtherBlock("type='image' mimeType='image/png'")>>,
              <<TextBlock("")>>}
      [] OTHER -> {}

HostResults(name, args) ==
    {Result(ToolContent(name, ToolRun(name, args, env)), EmptyDump) : env \in Envs(name)}
    \cup {Result(c, EmptyDump) : c \in ForeignContents(name)}

ChannelFaults == {"Connection closed"}

LlmContents == {Some("  It is mild in Paris today.\n"), NoText}

LlmFaults == {"Failed to connect to Ollama"}

(***************************************************************************)
(* agent_loop as a state machine                                           *)
(***************************************************************************)
VARIABLES
    pc,           \* "read" (blocked in readline), "geocode", "weather", "tool"
                  \* (awaiting call_tool), "llm" (in ask_llm), "done", "crashed"
    history,      \* the messages
    asked,        \* the messages the last call of ask_llm was given
    user,         \* the stripped line of the turn
    decision,     \* what detect_tool returned for it
    city,         \* the city of a weather turn
    raw,          \* the geocode text of a weather turn
    coords,       \* what json.loads made of it: [ok, val], ok FALSE where it raised
    tool_result,  \* None or the tool text of the turn
    calls,        \* the invocations issued in this turn, in order
    inflight,     \* invocations issued and not yet returned
    elapsed,      \* time units the pending invocation has waited
    ret,          \* the last return of call_tool in this turn
    stdout,       \* what was written to standard output
    turns,        \* completed turns
    fault         \* the uncaught exception that ended the loop, "" without one

vars ==
    <<pc, history, asked, user, decision, city, raw, coords, tool_result, calls,
      inflight, elapsed, ret, stdout, turns, fault>>

Awaiting == {"geocode", "weather", "tool"}

Call(name, args) == [name |-> name, args |-> args]

NoReturn == [name |-> "", kind |-> "none", msg |-> "", value |-> ""]

Unparsed == [ok |-> FALSE, val |-> JNull]

\* decision.get("args", {}) of lines 25-36
DecisionArgs(d) ==
    IF d.tool = "book_recs"
    THEN JObj(<<"topic", "limit">>, <<JStr(d.topic), JNum(IntToStr(d.limit))>>)
    ELSE EmptyObj

\* line 70 and the locals of the loop before its first turn
Fresh ==
    /\ history = <<Message("system", SYSTEM)>>
    /\ asked = <<>>
    /\ decision = NoDecision
    /\ city = ""
    /\ raw = ""
    /\ coords = Unparsed
    /\ tool_result = NoText
    /\ calls = <<>>
    /\ inflight = 0
    /\ elapsed = 0
    /\ ret = NoReturn
    /\ stdout = <<"You: ">>
    /\ turns = 0
    /\ fault = ""

\* blocked in the first readline, the first prompt written (lines 73-77)
Init ==
    /\ pc = "read"
    /\ user = ""
    /\ Fresh

\* AppendPrompt keeping only the system message before the new prompt
AppendPrompt_Truncating(text, result) ==
    /\ tool_result' = result
    /\ elapsed' = 0
    /\ history' = <<history[1], Message("user", BuildPrompt(text, result))>>
    /\ asked' = history'
    /\ inflight' = 0
    /\ pc' = "llm"

\* AppendPrompt giving ask_llm the new prompt alone
AppendPrompt_LastOnly(text, result) ==
    /\ tool_result' = result
    /\ elapsed' = 0
    /\ history' = Append(history, Message("user", BuildPrompt(text, result)))
    /\ asked' = <<Message("user", BuildPrompt(text, result))>>
    /\ inflight' = 0
    /\ pc' = "llm"

\* AppendPrompt reached while the invocation of the turn is still pending
AppendPrompt_NotAwaited(text, result) ==
    /\ tool_result' = result
    /\ elapsed' = 0
    /\ history' = Append(history, Message("user", BuildPrompt(text, result)))
    /\ asked' = history'
    /\ inflight' = inflight
    /\ pc' = "llm"

\* lines 118-120: the prompt is appended and ask_llm is entered (no wait is on)
AppendPrompt(text, result) ==
    /\ tool_result' = result
    /\ elapsed' = 0
    /\ history' = Append(history, Message("user", BuildPrompt(text, result)))
    /\ asked' = history'
    /\ inflight' = 0
    /\ pc' = "llm"

\* lines 82-107 for the stripped line text and d = detect_tool(text): the
\* loop ends, or the turn starts
StartTurn(text, d) ==
    /\ pc = "read"
    /\ user' = text
    /\ ret' = NoReturn
    /\ raw' = ""
    /\ coords' = Unparsed
    /\ UNCHANGED <<turns, fault>>
    /\ IF IsExit(text)
       THEN /\ stdout' = Append(stdout, "Goodbye!\n")
            /\ pc' = "done"
            /\ UNCHANGED <<history, asked, decision, city, tool_result, calls,
                           inflight, elapsed>>
       ELSE /\ turns < MaxTurns
            /\ decision' = d
            /\ city' = d.city
            /\ UNCHANGED stdout
            /\ IF d.tool = "None"
               THEN /\ AppendPrompt(text, NoText)
                    /\ calls' = <<>>
               ELSE /\ IF d.tool = "weather_pipeline"
                       THEN /\ calls' = <<Call("city_to_coords",
                                                JObj(<<"city">>, <<JStr(d.city)>>))>>
                            /\ pc' = "geocode"
                       ELSE /\ calls' = <<Call(d.tool, DecisionArgs(d))>>
                            /\ pc' = "tool"
                    /\ inflight' = 1
                    /\ elapsed' = 0
                    /\ tool_result' = NoText
                    /\ UNCHANGED <<history, asked>>

\* lines 72-107: one line is read (line 77 strips it, line 86 detects)
ReadLine(line) == StartTurn(strip(line), detect_tool(strip(line)))

\* lines 78-80: an interrupt in readline is caught
InterruptedReading ==
    /\ pc = "read"
    /\ stdout' = Append(stdout, "\nGoodbye!\n")
    /\ pc' = "done"
    /\ UNCHANGED <<history, asked, user, decision, city, raw, coords, tool_result,
                   calls, inflight, elapsed, ret, turns, fault>>

\* the wait of asyncio.wait_for(..., timeout=20) advances
Tick ==
    /\ pc \in Awaiting
    /\ elapsed < Timeout
    /\ elapsed' = elapsed + 1
    /\ UNCHANGED <<pc, history, asked, user, decision, city, raw, coords,
                   tool_result, calls, inflight, ret, stdout, turns, fault>>

\* lines 93-107 from the return of call_tool on, for the text value it
\* returned and the gate on it: the rest of the turn up to the next
\* invocation or to ask_llm
Continue(name, outcome, value, gate) ==
    /\ ret' = [name |-> name, kind |-> outcome.kind, msg |-> outcome.msg,
               value |-> value]
    /\ UNCHANGED <<user, decision, city, stdout, turns, fault>>
    /\ CASE pc = "geocode" ->
                /\ raw' = value
                /\ coords' = gate.coords
                /\ IF gate.go
                   THEN /\ calls' = Append(calls, Call("weather_summary",
                                  JObj(<<"latitude", "longitude">>,
                                       <<gate.lat, gate.lon>>)))
                        /\ inflight' = 1
                        /\ elapsed' = 0
                        /\ pc' = "weather"
                        /\ UNCHANGED <<history, asked, tool_result>>
                   ELSE /\ AppendPrompt(user, Some(gate.text))
                        /\ UNCHANGED calls
         [] pc = "weather" ->
                /\ AppendPrompt(user, Some(WeatherFor(city, value)))
                /\ UNCHANGED <<raw, coords, calls>>
         [] pc = "tool" ->
                /\ AppendPrompt(user, Some(value))
                /\ UNCHANGED <<raw, coords, calls>>

ReturnedText(name, outcome, value) ==
    Continue(name, outcome, value, GeocodeGate(city, value))

\* the pending invocation ends with outcome
Returned(outcome) ==
    ReturnedText(calls[Len(calls)].name, outcome,
                 call_tool(calls[Len(calls)].name, outcome))

\* the host answers before the wait expires
ToolReplies ==
    /\ pc \in Awaiting
    /\ elapsed < Timeout
    /\ \E r \in HostResults(calls[Len(calls)].name, calls[Len(calls)].args) :
           Returned(r)

\* session.call_tool raises an Exception
ToolRaises ==
    /\ pc \in Awaiting
    /\ elapsed < Timeout
    /\ \E msg \in ChannelFaults : Returned(Raised(msg))

\* ToolTimesOut of an await without wait_for: the wait goes on
ToolNeverTimesOut ==
    /\ pc \in Awaiting
    /\ elapsed = Timeout
    /\ UNCHANGED vars

\* the wait expires: asyncio.TimeoutError
ToolTimesOut ==
    /\ pc \in Awaiting
    /\ elapsed = Timeout
    /\ Returned(TimedOut)

\* lines 120-124: chat returns; the reply is printed and appended, and the
\* next prompt is written
LlmReplies ==
    /\ pc = "llm"
    /\ \E content \in LlmContents :
           LET answer == ask_llm(content)
           IN  /\ history' = Append(history, Message("assistant", answer))
               /\ stdout' = stdout \o <<"Agent: " \o answer \o "\n\n", "You: ">>
    /\ turns' = turns + 1
    /\ pc' = "read"
    /\ UNCHANGED <<asked, user, decision, city, raw, coords, tool_result, calls,
                   inflight, elapsed, ret, fault>>

\* line 120: chat raises; nothing in agent_loop or main catches it
LlmRaises ==
    /\ pc = "llm"
    /\ \E msg \in LlmFaults : fault' = msg
    /\ pc' = "crashed"
    /\ UNCHANGED <<history, asked, user, decision, city, raw, coords, tool_result,
                   calls, inflight, elapsed, ret, stdout, turns>>

\* an interrupt outside readline: call_tool catches Exception only, and
\* nothing is around ask_llm
InterruptedInTurn ==
    /\ pc \in Awaiting \cup {"llm"}
    /\ fault' = "KeyboardInterrupt"
    /\ pc' = "crashed"
    /\ elapsed' = 0
    /\ UNCHANGED <<history, asked, user, decision, city, raw, coords, tool_result,
                   calls, inflight, ret, stdout, turns>>

Next ==
    \/ \E line \in InputLines : ReadLine(line)
    \/ InterruptedReading
    \/ Tick
    \/ ToolReplies
    \/ ToolRaises
    \/ ToolTimesOut
    \/ LlmReplies
    \/ LlmRaises
    \/ InterruptedInTurn

Spec == Init /\ [][Next]_vars

(***************************************************************************)
(* detect_tool alone, over composed texts (each is a stripped line)        *)
(***************************************************************************)
Openers == {"", "What's the ", "funny "}

Subjects ==
    {"weather", "FORECAST", "temperature of this joke", "joke", "dog quiz",
     "book", "novel like Dune,", "time", "weather forecast for the puppy park and"}

Cities == {"Paris", "New York"}

Tails == {"", " in", " in  ?", " about dragons", " on space travel"}

\* what may follow the city of "weather in X"
Follows == {"", "?", ".", ",", "!", " today", ", please", ". Thanks"}

DetectTexts ==
    {o \o sub \o " in " \o x \o f :
         o \in Openers, sub \in Subjects, x \in Cities, f \in Follows}
    \cup {o \o sub \o t \o f :
              o \in Openers, sub \in Subjects, t \in Tails, f \in {"", "?", ", please"}}

InitDetect ==
    /\ pc = "detect"
    /\ user \in DetectTexts
    /\ Fresh

\* line 86
Detect ==
    /\ pc = "detect"
    /\ decision' = detect_tool(user)
    /\ pc' = "detected"
    /\ UNCHANGED <<history, asked, user, city, raw, coords, tool_result, calls,
                   inflight, elapsed, ret, stdout, turns, fault>>

DetectSpec == InitDetect /\ [][Detect]_vars

(***************************************************************************)
(* One turn up to ask_llm, over a line for every tool, with the wait of    *)
(* call_tool under the fairness of the event loop: time passes, and the    *)
(* timer of asyncio.wait_for fires when it is due                          *)
(***************************************************************************)
CallLines ==
    {"What's the weather in Paris?\n", "tell me a joke\n", "show me a dog\n",
     "Trivia please\n", "a book about dragons, please\n", "recommend a book\n",
     "hello there\n", "What time is it in Paris?\n", "  Thanks a lot!  \n"}

NextCall ==
    \/ \E line \in CallLines : ReadLine(line)
    \/ Tick
    \/ ToolReplies
    \/ ToolRaises
    \/ ToolTimesOut
    \/ InterruptedInTurn

CallSpec ==
    Init /\ [][NextCall]_vars /\ WF_vars(Tick) /\ WF_vars(ToolTimesOut)

(***************************************************************************)
(* Properties of agent_loop, call_tool and detect_tool                     *)
(***************************************************************************)
WeatherTurn == decision.tool = "weather_pipeline"

NoWeatherFetch == \A i \in 1..Len(calls) : calls[i].name # "weather_summary"

C1_CountAndSystem ==
    /\ pc \in {"read", "done"} => Len(history) = 1 + 2 * turns
    /\ history[1] = [role |-> "system", content |-> SYSTEM]
    /\ \A i \in 2..Len(history) :
           history[i].role = IF i % 2 = 0 THEN "user" ELSE "assistant"

C1_PrefixKept ==
    /\ Len(history') >= Len(history)
    /\ SubSeq(history', 1, Len(history)) = history

\* C1: the history is append-only and order-preserving: between turns it
\* holds 1 + 2N messages after N completed turns, its first message is the
\* system message of initialization, user and assistant messages alternate
\* after it, and every step keeps the messages already there as a prefix
C1_HistoryAppendOnly == [](C1_CountAndSystem) /\ [][C1_PrefixKept]_vars

C1_TwoTurnsDone == pc = "read" /\ turns = 2 /\ Len(history) = 5

C2_NoCoordinate ==
    /\ WeatherTurn
    /\ coords.ok
    /\ coords.val.t = "obj"
    /\ \/ DictGet(coords.val, "latitude").t = "null"
       \/ DictGet(coords.val, "longitude").t = "null"

\* C2: in a weather turn whose geocode result is a mapping without a
\* latitude or without a longitude, the pipeline's text is the "Could not
\* find city" message and weather_summary is not invoked in that turn
C2_MissingCoordinateStops ==
    C2_NoCoordinate =>
        /\ tool_result = [some |-> TRUE, s |-> "Could not find city '" \o city \o "'."]
        /\ NoWeatherFetch

C2_ErrorMappingSeen == C2_NoCoordinate /\ pc = "llm" /\ HasKey(coords.val, "error")

\* the geocode text came back and is no mapping
C3_Unparseable ==
    /\ WeatherTurn
    /\ ret.kind # "none"
    /\ ~coords.ok \/ coords.val.t # "obj"

\* C3 as stated: a geocode text that does not parse as a mapping ends the
\* pipeline with the "could not find city" message, without stage 2
C3_UnparseableGivesMessage ==
    C3_Unparseable =>
        /\ tool_result = [some |-> TRUE, s |-> "Could not find city '" \o city \o "'."]
        /\ NoWeatherFetch

\* C3: a geocode text that does not parse as a mapping (the bracketed
\* timeout or fault text, JSON that is no mapping) ends the pipeline with
\* that text itself as the pipeline's text, and stage 2 is not invoked
C3_UnparseableSurfacesRaw ==
    C3_Unparseable =>
        /\ tool_result = [some |-> TRUE, s |-> raw]
        /\ raw = ret.value
        /\ ret.name = "city_to_coords"
        /\ NoWeatherFetch

C3_GeocodeTimedOut ==
    /\ C3_Unparseable
    /\ pc = "llm"
    /\ ret.kind = "timeout"
    /\ raw = "[Error: 'city_to_coords' timed out]"

C4_WeatherReturned == WeatherTurn /\ ret.name = "weather_summary"

\* the invocation timed out or raised, or the tool gave an error result
C4_WeatherFailed ==
    \/ ret.kind \in {"timeout", "raise"}
    \/ StartsAt(ret.value, 1, "Error executing tool")
    \/ Contains(ret.value, "\"error\":")

\* C4 as stated: the text of a successful weather_summary is wrapped with
\* the city name, the text of a failed one is the pipeline's text as it is
C4_FailureSurfacedBare ==
    C4_WeatherReturned =>
        tool_result =
            [some |-> TRUE,
             s |-> IF C4_WeatherFailed THEN ret.value
                   ELSE "Weather for " \o city \o ":\n" \o ret.value]

\* C4: whatever weather_summary's invocation returned, its result or a
\* failure text, the pipeline's text is that text after the line
\* "Weather for <city>:"
C4_AlwaysWrapped ==
    C4_WeatherReturned =>
        tool_result = [some |-> TRUE, s |-> "Weather for " \o city \o ":\n" \o ret.value]

C4_FailedFetchWrapped ==
    /\ C4_WeatherReturned
    /\ pc = "llm"
    /\ ret.kind = "timeout"
    /\ tool_result.s = "Weather for Paris:\n[Error: 'weather_summary' timed out]"

C5_TimeoutText ==
    ret.kind = "timeout" =>
        ret.value = "[Error: '" \o ret.name \o "' timed out]" /\ ret.name \in Registry

\* once the wait has expired the invocation returns, and the turn goes on
C5_ExpiryReturns ==
    (pc \in Awaiting /\ elapsed = Timeout /\ pc' # "crashed") =>
        (ret'.kind = "timeout" /\ pc' = "llm")

\* C5: every invocation returns to its caller: the wait at each of the three
\* await points ends; when the 20 units have expired without an answer,
\* call_tool returns the timeout text for that tool and the turn goes on
C5_CallToolReturns ==
    /\ \A p \in Awaiting : (pc = p) ~> (pc # p)
    /\ [](C5_TimeoutText)
    /\ [][C5_ExpiryReturns]_vars

C5_TimedOutThenLlm == pc = "llm" /\ ret.kind = "timeout" /\ ret.name = "random_dog"

C7_OnlyInputEndsLoop ==
    pc \in {"done", "crashed"} =>
        \/ pc = "done" /\ IsExit(user)
        \/ pc = "done" /\ stdout[Len(stdout)] = "\nGoodbye!\n"
        \/ fault = "KeyboardInterrupt"

Order == <<"weather_pipeline", "trivia", "random_joke", "random_dog", "book_recs">>

KeywordsOf(c) ==
    CASE c = "weather_pipeline" -> WeatherWords
      [] c = "trivia" -> TriviaWords
      [] c = "random_joke" -> JokeWords
      [] c = "random_dog" -> DogWords
      [] c = "book_recs" -> BookWords

KeywordPresent(c) == AnyIn(lower(user), KeywordsOf(c))

LocationCaptured ==
    /\ RegexMatches(user, LocationWords, LocationEnds)
    /\ strip(RegexGroup(user, LocationWords, LocationEnds)) # ""

\* C8 as stated: the category of the decision is the first category, in the
\* priority order, one of whose keywords occurs in the text
C8_FirstKeywordWins ==
    pc = "detected" =>
        \A i \in 1..Len(Order) :
            (KeywordPresent(Order[i]) /\ \A j \in 1..(i - 1) : ~KeywordPresent(Order[j]))
                => decision.tool = Order[i]

CategoryMatches(c) ==
    KeywordPresent(c) /\ (c = "weather_pipeline" => LocationCaptured)

\* C8: the category of the decision is the first category, in the priority
\* order, that matches, where weather matches when one of its keywords
\* occurs and a location is captured and the others when one of their
\* keywords occurs; with no match there is no decision
C8_FirstMatchWins ==
    pc = "detected" =>
        /\ \A i \in 1..Len(Order) :
               (CategoryMatches(Order[i]) /\ \A j \in 1..(i - 1) : ~CategoryMatches(Order[j]))
                   => decision.tool = Order[i]
        /\ (\A i \in 1..Len(Order) : ~CategoryMatches(Order[i])) => decision = NoDecision

C8_TriviaBeatsDog ==
    /\ pc = "detected"
    /\ KeywordPresent("trivia")
    /\ KeywordPresent("random_dog")
    /\ ~KeywordPresent("weather_pipeline")
    /\ decision.tool = "trivia"

\* C9 as stated: every text in which a category keyword occurs yields a
\* decision, with a fallback argument where nothing is captured
C9_KeywordAlwaysDecides ==
    pc = "detected" =>
        /\ (\E i \in 1..Len(Order) : KeywordPresent(Order[i])) => decision.tool # "None"
        /\ (decision.tool = "book_recs" /\ ~RegexMatches(user, TopicWords, TopicEnds))
               => decision.topic = "fiction"

\* C9: a keyword of trivia, joke, dog or book always yields a decision; the
\* book topic is "fiction" where no topic is captured; a weather keyword
\* with no captured location yields no weather decision: the text falls
\* through to the other four categories, and to no decision when none of
\* their keywords occurs
C9_FallbackOrFallThrough ==
    pc = "detected" =>
        /\ (\E i \in 2..Len(Order) : KeywordPresent(Order[i])) => decision.tool # "None"
        /\ (decision.tool = "book_recs" /\ ~RegexMatches(user, TopicWords, TopicEnds))
               => (decision.topic = "fiction" /\ decision.limit = 3)
        /\ (KeywordPresent("weather_pipeline") /\ ~LocationCaptured) =>
               /\ decision.tool # "weather_pipeline"
               /\ decision.tool = "None" <=> \A i \in 2..Len(Order) : ~KeywordPresent(Order[i])
        /\ decision.tool \in {Order[i] : i \in 1..Len(Order)} \cup {"None"}

C9_BookWithoutTopic ==
    /\ pc = "detected"
    /\ decision.tool = "book_recs"
    /\ ~RegexMatches(user, TopicWords, TopicEnds)
    /\ decision.topic = "fiction"

\* C10 as stated: a text containing "weather in X" yields the weather
\* pipeline with city X, whatever follows X
C10_CityIsX ==
    pc = "detected" =>
        \A o \in Openers : \A x \in Cities : \A f \in Follows :
            user = o \o "weather in " \o x \o f
                => (decision.tool = "weather_pipeline" /\ decision.city = x)

NoKeyword == \A i \in 1..Len(Order) : ~KeywordPresent(Order[i])

\* C11: for the text of a turn in which no keyword of the five categories
\* occurs, detect_tool returns nothing, no tool is invoked in the turn, and
\* the user message appended to the history is the user text itself
C11_NoKeywordUngrounded ==
    (NoKeyword /\ user # "" /\ pc # "read") =>
        /\ decision.tool = "None"
        /\ calls = <<>>
        /\ inflight = 0
        /\ ret.kind = "none"
        /\ tool_result = [some |-> FALSE, s |-> ""]
        /\ pc \in {"llm", "crashed"}
        /\ history[Len(history)] = [role |-> "user", content |-> user]

C11_TimeAsked ==
    /\ pc = "llm"
    /\ user = "What time is it in Paris?"
    /\ NoKeyword
    /\ history[2].content = "What time is it in Paris?"

Grounded(text, tool) ==
    "User asked: \"" \o text \o "\"\n\nTool returned:\n" \o tool
        \o "\n\nReply to the user naturally in plain English. No JSON or code."

\* a tool or the pipeline ran in the turn exactly when there is tool text,
\* and the text of a single tool is what call_tool returned
C12_ToolTextOfTurn ==
    pc = "llm" =>
        /\ tool_result.some <=> decision.tool # "None"
        /\ decision.tool \notin {"None", "weather_pipeline"} => tool_result.s = ret.value

C12_PromptAppended ==
    (pc # "llm" /\ pc' = "llm") =>
        history' = Append(history,
            [role |-> "user",
             content |-> IF tool_result'.some /\ tool_result'.s # ""
                         THEN Grounded(user', tool_result'.s)
                         ELSE user'])

\* C12: the user message appended in a turn in which a tool or the pipeline
\* ran and gave tool text (a text that is not empty) is the grounding prompt
\* holding the user text and the tool text verbatim; in every other turn it
\* is the user text unchanged
C12_GroundingPrompt == [](C12_ToolTextOfTurn) /\ [][C12_PromptAppended]_vars

C12_JokeGrounded ==
    /\ pc = "llm"
    /\ decision.tool = "random_joke"
    /\ ret.kind = "result"
    /\ history[Len(history)].content
           = Grounded("tell me a joke", "{\n  \"joke\": \"I told my dog a joke. He howled.\"\n}")

\* C13: every tool name agent_loop passes to the channel, whatever the
\* lines typed, is a name the host listed at startup
C13_IssuedNamesListed ==
    /\ \A i \in 1..Len(calls) : calls[i].name \in Registry
    /\ pc \in Awaiting => calls # <<>>

C13_DogAsked ==
    /\ pc = "tool"
    /\ inflight = 1
    /\ Len(calls) = 1
    /\ calls[1].name = "random_dog"

C14_InTurn ==
    /\ pc = "llm" =>
           /\ asked = history
           /\ Len(history) = 2 * turns + 2
           /\ history[1].role = "system"
           /\ history[Len(history)].role = "user"
    /\ pc \in Awaiting \cup {"read"} =>
           /\ Len(history) = 2 * turns + 1
           /\ history[Len(history)].role \in {"system", "assistant"}

C14_Step ==
    /\ (pc = "llm" /\ pc' # "llm") =>
           \/ pc' = "crashed" /\ history' = history /\ turns' = turns
           \/ /\ pc' = "read"
              /\ turns' = turns + 1
              /\ Len(history') = Len(history) + 1
              /\ SubSeq(history', 1, Len(history)) = history
              /\ history'[Len(history')].role = "assistant"
              /\ asked' = asked
    /\ (pc = "read" /\ pc' \in Awaiting \cup {"llm"}) =>
           /\ turns' = turns
           /\ history[Len(history)].role \in {"system", "assistant"}
    /\ turns' # turns => pc = "llm"
    /\ history' # history =>
           \/ pc # "llm" /\ pc' = "llm" /\ Len(history') = Len(history) + 1
           \/ pc = "llm" /\ pc' = "read"

\* C14: in a turn the prompt is appended as a user message, then the
\* language model is asked with the whole history up to that message, then
\* its reply is appended as an assistant message, each once; a line starts
\* one turn, and no turn starts before the one before it has appended its
\* assistant message
C14_TurnOrder == [](C14_InTurn) /\ [][C14_Step]_vars

C14_SecondTurnAsked ==
    /\ pc = "read"
    /\ turns = 2
    /\ Len(asked) = 4
    /\ asked = SubSeq(history, 1, 4)
    /\ history[5].role = "assistant"

ExitText(t) == t = "" \/ lower(t) \in {"exit", "quit"}

C15_Farewell ==
    pc = "done" => stdout[Len(stdout)] \in {"Goodbye!\n", "\nGoodbye!\n"}

\* the step that reads an empty line or an exit word (the other step that
\* leaves the read is the interrupt, which writes its own farewell)
C15_ExitStep ==
    (pc = "read" /\ ExitText(user') /\ stdout' # Append(stdout, "\nGoodbye!\n")) =>
        /\ pc' = "done"
        /\ stdout' = Append(stdout, "Goodbye!\n")
        /\ history' = history
        /\ asked' = asked
        /\ calls' = calls
        /\ inflight' = 0
        /\ turns' = turns
        /\ fault' = ""

\* C15: an empty line or an exit word in any letter case ends the loop: the
\* farewell is printed, nothing happens after it, and for that line no tool
\* is invoked, the language model is not asked and the history is unchanged
C15_ExitEndsLoop == [](C15_Farewell) /\ [][C15_ExitStep /\ pc # "done"]_vars

C15_QuitAfterTurn ==
    /\ pc = "done"
    /\ user = "QUIT"
    /\ turns = 1
    /\ Len(history) = 3
    /\ stdout[Len(stdout)] = "Goodbye!\n"

\* C16 as stated: the end of input, or an interrupt while the loop waits for
\* input, for a tool or for the language model, ends the loop with the
\* farewell printed and no uncaught exception
C16_InterruptEndsCleanly ==
    (pc \in {"done", "crashed"} /\ fault \notin LlmFaults) =>
        /\ pc = "done"
        /\ fault = ""
        /\ stdout[Len(stdout)] \in {"Goodbye!\n", "\nGoodbye!\n"}

\* C17 as stated: no tool lets a fault of its outbound request leave the
\* tool body: what the host returns for a tool is never its error text for
\* an exception raised by that tool
C17_NoFaultLeavesTool ==
    ret.kind = "result" => ~StartsAt(ret.value, 1, "Error executing tool " \o ret.name)

\* C18: at most one invocation is outstanding: one while call_tool is
\* awaited and none otherwise, none while the language model is asked, and
\* weather_summary is outstanding only once city_to_coords has returned
C18_OneOutstanding ==
    /\ inflight \in {0, 1}
    /\ inflight = 1 => pc \in Awaiting \cup {"crashed"}
    /\ pc \in Awaiting => (inflight = 1 /\ calls # <<>>)
    /\ pc \in {"read", "llm", "done"} => inflight = 0
    /\ pc = "geocode" => Len(calls) = 1
    /\ pc = "tool" => Len(calls) = 1
    /\ pc = "weather" =>
           /\ Len(calls) = 2
           /\ calls[1].name = "city_to_coords"
           /\ calls[2].name = "weather_summary"
           /\ ret.name = "city_to_coords"
           /\ ret.kind = "result"
           /\ raw = ret.value

C18_WeatherOutstanding ==
    /\ pc = "weather"
    /\ inflight = 1
    /\ elapsed = 3
    /\ ret.name = "city_to_coords"

\* (the locals of the pipeline are no longer there once the loop has ended)
C19_Stages ==
    /\ (WeatherTurn /\ pc # "done") =>
           /\ Len(calls) \in {1, 2}
           /\ calls[1].name = "city_to_coords"
           /\ calls[1].args = JObj(<<"city">>, <<JStr(decision.city)>>)
           /\ Len(calls) = 2 =>
                  /\ calls[2].name = "weather_summary"
                  /\ coords.ok
                  /\ coords.val.t = "obj"
                  /\ HasKey(coords.val, "latitude")
                  /\ HasKey(coords.val, "longitude")
                  /\ DictGet(calls[2].args, "latitude") = DictGet(coords.val, "latitude")
                  /\ DictGet(calls[2].args, "longitude") = DictGet(coords.val, "longitude")
                  /\ DictGet(coords.val, "latitude").t # "null"
                  /\ DictGet(coords.val, "longitude").t # "null"
    /\ ~WeatherTurn => Len(calls) <= 1

\* after the first stage failed, and after the second stage was issued,
\* nothing more is invoked in the turn
C19_NoRetry ==
    /\ (pc = "geocode" /\ calls' # calls) =>
           /\ ret'.kind = "result"
           /\ ret'.name = "city_to_coords"
           /\ Len(calls') = 2
           /\ calls'[1] = calls[1]
    /\ pc \in {"weather", "llm", "crashed", "done"} => calls' = calls

\* C19: a weather turn invokes city_to_coords once, with the detected city;
\* weather_summary at most once, only after city_to_coords gave a mapping
\* carrying both coordinates, and with exactly those two values; and
\* nothing is invoked again in the turn after either stage failed
C19_TwoStages == [](C19_Stages) /\ [][C19_NoRetry]_vars

C19_BothStagesRan ==
    /\ pc = "llm"
    /\ WeatherTurn
    /\ Len(calls) = 2
    /\ DictGet(calls[2].args, "latitude").n = "48.85"
    /\ DictGet(calls[2].args, "longitude").n = "2.35"
    /\ ret.name = "weather_summary"

C20_BothPresent ==
    /\ WeatherTurn
    /\ ret.kind # "none"
    /\ coords.ok
    /\ coords.val.t = "obj"
    /\ DictGet(coords.val, "latitude").t # "null"
    /\ DictGet(coords.val, "longitude").t # "null"

\* C20 as stated: a geocode mapping carrying a latitude and a longitude
\* leads to the weather fetch whatever their values, zero included, and
\* never to the "Could not find city" message
C20_PresentCoordinatesFetch ==
    C20_BothPresent =>
        /\ \E i \in 1..Len(calls) : calls[i].name = "weather_summary"
        /\ tool_result # [some |-> TRUE, s |-> "Could not find city '" \o city \o "'."]

====
